---- MODULE Spec2Model ----
(***************************************************************************)
(* ATHENA control plane: order lifecycle (execution-gateway), kill switch  *)
(* and mandate monitor (risk-engine), strategy activation                  *)
(* (strategy-registry).  Every database statement of a handler is one      *)
(* atomic step; handlers and background tasks interleave between steps.    *)
(***************************************************************************)
EXTENDS Integers, Sequences, FiniteSets, TLC

\* ------------------------------------------------------------------ bounds
MaxOrders == 2
MaxQty == 2
MaxKillSwitches == 1
MaxCancelAlls == 1
MaxActivations == 1
MaxInFlight == 2
MaxValue == 3
MaxAlerts == 2
MaxPasses == 2
MaxFills == 2

\* -------------------------------------------------------------- constants
BatchLimit == 10

NoStrategy == "NULL"
Strategies == {"s1", "s2"}
KnownSymbols == {"AAPL"}
AllSymbols == KnownSymbols \cup {"ZZZZ"}
Roles == {"ADMIN", "QUANT", "VIEWER"}
OrderSides == {"BUY", "SELL"}
OrderStatuses == {"PENDING", "OPEN", "FILLED", "PARTIAL", "CANCELLED", "REJECTED"}
StrategyStatuses == {"ACTIVE", "INACTIVE", "HALTED", "ERROR"}
OpenStatuses == {"PENDING", "OPEN", "PARTIAL"}
TerminalStatuses == {"FILLED", "CANCELLED", "REJECTED"}
MandateIds == {"m1", "m2"}
MandateStatuses == {"OK", "WARNING", "BREACH"}
Websockets == {"w1", "w2"}
Producers == {"monitor", "kill_switch"}
Severities == {"WARNING", "CRITICAL"}
\* The last_price values the market feed publishes for a symbol.
Prices == {50, 51}
\* A feed whose price does not move.
FlatPrices == {50}
\* A nullable column: << >> is NULL, <<v>> holds v.
NULL == << >>
AuditActions == {"ORDER_SUBMIT", "ORDER_CANCEL", "ORDERS_CANCEL_ALL",
                 "KILL_SWITCH_EXECUTE", "STRATEGY_ACTIVATE"}

VARIABLES
    orders,         \* table orders: sequence of rows, id = index
    fills,          \* table fills: sequence of [order_id, quantity, price]
    positions,      \* table positions: sequence of [strategy_id, symbol, quantity,
                    \*   average_entry_price, current_price]
    strategies,     \* table strategies: id -> status
    haltFlag,       \* system_state 'kill_switch_active'
    systemStatus,   \* system_state 'system_status'
    auditLog,       \* table audit_events: action -> number of rows
    broadcasts,     \* messages handed to alert_manager.broadcast_alert
    published,      \* messages published on redis channel system_alerts
    sendPc, sendReq,
    simPc, simBatch, simCur,
    cancelPc, cancelReq,
    caPc, caReq,
    ksPc, ksReq,          \* the kill switch's locals; open_at_start is history
    ksDone,         \* history: what this kill-switch call has changed so far
    actPc, actReq,
    mandates,       \* table risk_mandates: id -> row
    alerts,         \* table risk_alerts: mandate id -> severity -> number of rows
    acknowledged,   \* ... and how many of these rows have is_acknowledged = true
    monPc,          \* risk_monitoring_loop: where the current pass is
    monBatch,       \* check_mandate_breaches: the fetched rows still to evaluate
    streak,         \* history, per mandate: its latest run of equal computed statuses
    connections,    \* alert_manager.active_connections
    bcast,          \* the running broadcast_alert call of each producer, if any
    wsPc,           \* websocket_endpoint, per websocket: where its handler is
    received        \* per websocket: the first message its subscriber got

orderVars == <<orders, fills, positions>>
storeVars == <<orders, fills, positions, strategies, haltFlag, systemStatus>>
sinkVars == <<auditLog, broadcasts, published>>
sendVars == <<sendPc, sendReq>>
simVars == <<simPc, simBatch, simCur>>
cancelVars == <<cancelPc, cancelReq>>
caVars == <<caPc, caReq>>
ksVars == <<ksPc, ksReq, ksDone>>
actVars == <<actPc, actReq>>
tradeVars == <<orders, fills, positions, strategies, haltFlag, systemStatus,
               auditLog, published, sendPc, sendReq, simPc, simBatch, simCur,
               cancelPc, cancelReq, caPc, caReq, ksPc, ksReq, ksDone, actPc, actReq>>
monVars == <<mandates, alerts, acknowledged, monPc, monBatch, streak>>
fanVars == <<connections, bcast, wsPc, received>>
vars == <<orders, fills, positions, strategies, haltFlag, systemStatus,
          auditLog, broadcasts, published,
          sendPc, sendReq, simPc, simBatch, simCur, cancelPc, cancelReq,
          caPc, caReq, ksPc, ksReq, ksDone, actPc, actReq,
          mandates, alerts, acknowledged, monPc, monBatch, streak, connections, bcast,
          wsPc, received>>

\* ---------------------------------------------------------------- helpers
NoReq == [none |-> TRUE]
NoKsDone == [cancelled |-> 0, zeroed |-> 0, halted |-> 0,
             flagSet |-> FALSE, statusSet |-> FALSE]

Abs(x) == IF x < 0 THEN -x ELSE x

OrderIds == 1..Len(orders)

IsOpen(o) == o.status \in OpenStatuses

OpenOrderIds == {i \in OrderIds : IsOpen(orders[i])}

Audit(action) == [auditLog EXCEPT ![action] = @ + 1]

\* A handler that has decided its response holds it until the framework sends it.
Reply(code) == [resp |-> code]

\* The number of handlers and background passes that are between two of their steps.
InFlight ==
    Cardinality({p \in {<<"send", sendPc>>, <<"sim", simPc>>, <<"cancel", cancelPc>>,
                        <<"cancel_all", caPc>>, <<"kill", ksPc>>, <<"activate", actPc>>} :
                    p[2] # "idle"})

\* The rows a risk_mandates table can hold within the bounds.
Limits == {NULL} \cup {<<v>> : v \in -2..2}
Values == {NULL} \cup {<<v>> : v \in -MaxValue..MaxValue}
MandateRows == [soft_limit : Limits, hard_limit : Limits, current_value : Values,
                status : MandateStatuses, is_active : BOOLEAN]
NoStreak == [status |-> "none", passes |-> 0, alerts |-> 0]

\* ------------------------------------------------------------------- Init
\* Every table but risk_mandates and strategies starts empty; the mandate table
\* is given by the specification.
InitStore ==
    /\ orders = << >>
    /\ fills = << >>
    /\ positions = << >>
    /\ strategies \in [Strategies -> StrategyStatuses]
    /\ haltFlag = FALSE
    /\ systemStatus = "NORMAL"
    /\ auditLog = [a \in AuditActions |-> 0]
    /\ broadcasts = 0
    /\ published = 0
    /\ sendPc = "idle" /\ sendReq = NoReq
    /\ simPc = "idle" /\ simBatch = {} /\ simCur = NoReq
    /\ cancelPc = "idle" /\ cancelReq = NoReq
    /\ caPc = "idle" /\ caReq = NoReq
    /\ ksPc = "idle" /\ ksReq = NoReq /\ ksDone = NoKsDone
    /\ actPc = "idle" /\ actReq = NoReq
    /\ alerts = [m \in MandateIds |-> [v \in Severities |-> 0]]
    /\ acknowledged = [m \in MandateIds |-> [v \in Severities |-> 0]]
    /\ monPc = "idle" /\ monBatch = << >>
    /\ streak = [m \in MandateIds |-> NoStreak]
    /\ connections = {}
    /\ bcast = [c \in Producers |-> NoReq]
    /\ wsPc = [w \in Websockets |-> "closed"]
    /\ received = [w \in Websockets |-> "none"]

Init ==
    /\ InitStore
    /\ mandates = [m \in MandateIds |->
                     [soft_limit |-> <<1>>, hard_limit |-> <<2>>, current_value |-> <<0>>,
                      status |-> "OK", is_active |-> TRUE]]

\* ------------------------------------------------- send_order (POST /orders/send)
\* SendOrderCheck without the price lookup that rejects an unknown symbol.
SendOrderCheckAnySymbol(role, symbol) ==
    /\ sendPc = "idle"
    /\ InFlight < MaxInFlight
    /\ Len(orders) < MaxOrders
    /\ IF role = "VIEWER"
         THEN /\ sendPc' = "return"
              /\ sendReq' = Reply("Forbidden")
         ELSE IF haltFlag
         THEN /\ sendPc' = "return"
              /\ sendReq' = Reply("HaltActive")
         ELSE /\ sendPc' = "insert"
              /\ sendReq' = [symbol |-> symbol]
    /\ UNCHANGED <<fanVars, monVars, storeVars, sinkVars, simVars, cancelVars, caVars, ksVars, actVars>>

\* Role check, read of kill_switch_active, price lookup for the symbol.
SendOrderCheck(role, symbol) ==
    /\ sendPc = "idle"
    /\ InFlight < MaxInFlight
    /\ Len(orders) < MaxOrders
    /\ IF role = "VIEWER"
         THEN /\ sendPc' = "return"
              /\ sendReq' = Reply("Forbidden")
         ELSE IF haltFlag
         THEN /\ sendPc' = "return"
              /\ sendReq' = Reply("HaltActive")
         ELSE IF symbol \notin KnownSymbols
         THEN /\ sendPc' = "return"
              /\ sendReq' = Reply("UnknownSymbol")
         ELSE /\ sendPc' = "insert"
              /\ sendReq' = [symbol |-> symbol]
    /\ UNCHANGED <<fanVars, monVars, storeVars, sinkVars, simVars, cancelVars, caVars, ksVars, actVars>>

\* INSERT INTO orders ... 'PENDING', then the ORDER_SUBMIT audit row.
SendOrderInsert(side, qty, strat) ==
    /\ sendPc = "insert"
    /\ orders' = Append(orders,
                    [symbol |-> sendReq.symbol, side |-> side,
                     quantity |-> qty, filled |-> 0, average_fill_price |-> NULL,
                     status |-> "PENDING", strategy |-> strat,
                     haltAtInsert |-> haltFlag])
    /\ auditLog' = Audit("ORDER_SUBMIT")
    /\ sendPc' = "return"
    /\ sendReq' = [resp |-> "success", order_id |-> Len(orders) + 1, status |-> "PENDING"]
    /\ UNCHANGED <<fanVars, monVars, fills, positions, strategies, haltFlag, systemStatus,
                   broadcasts, published, simVars, cancelVars, caVars, ksVars, actVars>>

\* The response is sent and the request ends.
SendOrderReturn ==
    /\ sendPc = "return"
    /\ sendPc' = "idle" /\ sendReq' = NoReq
    /\ UNCHANGED <<fanVars, monVars, storeVars, sinkVars, simVars, cancelVars, caVars, ksVars, actVars>>

\* sides, strats: the order sides and owning strategies the callers ask for.
send_order(sides, strats) ==
    \/ \E role \in Roles, symbol \in AllSymbols : SendOrderCheck(role, symbol)
    \/ \E side \in sides, qty \in 1..MaxQty, strat \in strats :
            SendOrderInsert(side, qty, strat)
    \/ SendOrderReturn

\* ------------------------------------- simulate_order_execution (background task)
\* The row of order i as the SELECT of the open orders returns it.
Snapshot(i) == [id |-> i, filled |-> orders[i].filled]

\* SELECT * FROM orders WHERE status IN (...) LIMIT 10, and the draws of
\* random.random() < 0.3 that decide which of the fetched orders get a fill.
SimFetch ==
    /\ simPc = "idle"
    /\ InFlight < MaxInFlight
    /\ \E chosen \in SUBSET OpenOrderIds :
        /\ chosen # {}
        /\ Cardinality(chosen) <= BatchLimit
        /\ simBatch' = {Snapshot(i) : i \in chosen}
    /\ simPc' = "fill"
    /\ simCur' = NoReq
    /\ UNCHANGED <<fanVars, monVars, storeVars, sinkVars, sendVars, cancelVars, caVars, ksVars, actVars>>

\* remaining and fill_qty from the fetched row, fill_price from the price the
\* feed last published (one of prices); INSERT INTO fills.
SimInsertFill(prices) ==
    /\ simPc = "fill"
    /\ Len(fills) < MaxFills
    /\ \E row \in simBatch :
        LET remaining == orders[row.id].quantity - row.filled IN
        \E fill_qty \in 1..remaining, fill_price \in prices :
            /\ fills' = Append(fills, [order_id |-> row.id, quantity |-> fill_qty,
                                       price |-> fill_price])
            /\ simCur' = [id |-> row.id, filled |-> row.filled, fill_qty |-> fill_qty,
                          fill_price |-> fill_price]
            /\ simBatch' = simBatch \ {row}
    /\ simPc' = "update_order"
    /\ UNCHANGED <<fanVars, monVars, orders, positions, strategies, haltFlag, systemStatus, sinkVars,
                   sendVars, cancelVars, caVars, ksVars, actVars>>

NewStatus(new_filled, quantity) ==
    IF new_filled >= quantity THEN "FILLED" ELSE "PARTIAL"

\* UPDATE orders SET filled_quantity, average_fill_price, status WHERE id.
SimUpdateOrder ==
    /\ simPc = "update_order"
    /\ LET new_filled == simCur.filled + simCur.fill_qty IN
        orders' = [orders EXCEPT ![simCur.id] =
                     [@ EXCEPT !.filled = new_filled,
                               !.average_fill_price = <<simCur.fill_price>>,
                               !.status = NewStatus(new_filled, orders[simCur.id].quantity)]]
    /\ simPc' = "read_position"
    /\ UNCHANGED <<fanVars, monVars, fills, positions, strategies, haltFlag, systemStatus, sinkVars,
                   simBatch, simCur, sendVars, cancelVars, caVars, ksVars, actVars>>

\* Rows that "symbol = $1 AND strategy_id = $2" selects: a NULL strategy_id
\* compares equal to nothing.
MatchingPositions(symbol, strat) ==
    {k \in 1..Len(positions) :
        /\ strat # NoStrategy
        /\ positions[k].symbol = symbol
        /\ positions[k].strategy = strat}

\* SELECT * FROM positions WHERE symbol = $1 AND strategy_id = $2 (first row).
SimReadPosition ==
    /\ simPc = "read_position"
    /\ LET o == orders[simCur.id]
           m == MatchingPositions(o.symbol, o.strategy) IN
        IF m = {}
          THEN simCur' = [id |-> simCur.id, fill_qty |-> simCur.fill_qty,
                          fill_price |-> simCur.fill_price, pos |-> 0, pos_quantity |-> 0]
          ELSE \E k \in m :
                /\ \A j \in m : k <= j
                /\ simCur' = [id |-> simCur.id, fill_qty |-> simCur.fill_qty,
                              fill_price |-> simCur.fill_price, pos |-> k,
                              pos_quantity |-> positions[k].quantity]
    /\ simPc' = "write_position"
    /\ UNCHANGED <<fanVars, monVars, storeVars, sinkVars, simBatch, sendVars, cancelVars, caVars,
                   ksVars, actVars>>

QtyChange(side, fill_qty) == IF side = "BUY" THEN fill_qty ELSE -fill_qty

\* UPDATE positions SET quantity = new_qty, current_price = fill_price WHERE id,
\* or INSERT INTO positions with average_entry_price = current_price = fill_price.
SimWritePosition ==
    /\ simPc = "write_position"
    /\ LET o == orders[simCur.id]
           qty_change == QtyChange(o.side, simCur.fill_qty) IN
        IF simCur.pos # 0
          THEN positions' = [positions EXCEPT ![simCur.pos] =
                               [@ EXCEPT !.quantity = simCur.pos_quantity + qty_change,
                                         !.current_price = simCur.fill_price]]
          ELSE positions' = Append(positions,
                               [strategy |-> o.strategy, symbol |-> o.symbol,
                                quantity |-> qty_change,
                                average_entry_price |-> simCur.fill_price,
                                current_price |-> simCur.fill_price])
    /\ simPc' = IF simBatch = {} THEN "idle" ELSE "fill"
    /\ simCur' = NoReq
    /\ UNCHANGED <<fanVars, monVars, orders, fills, strategies, haltFlag, systemStatus, sinkVars,
                   simBatch, sendVars, cancelVars, caVars, ksVars, actVars>>

\* The statement the task is about to run raises, and has no effect: the except
\* clause of lines 143-145 logs it, the rest of the batch is dropped and the
\* loop goes on with its next fetch.
SimFail ==
    /\ simPc \in {"fill", "update_order", "read_position", "write_position"}
    /\ simPc' = "idle"
    /\ simBatch' = {}
    /\ simCur' = NoReq
    /\ UNCHANGED <<fanVars, monVars, storeVars, sinkVars, sendVars, cancelVars, caVars, ksVars, actVars>>

\* prices: the prices the feed publishes while the task runs.
simulate_order_execution(prices) ==
    \/ SimFetch
    \/ SimInsertFill(prices)
    \/ SimUpdateOrder
    \/ SimReadPosition
    \/ SimWritePosition
    \/ SimFail

\* ---------------------------------- cancel_order (POST /orders/{order_id}/cancel)
\* CancelOrderRead with FILLED missing from the terminal statuses it rejects.
CancelOrderReadForgetsFilled(role, order_id) ==
    /\ cancelPc = "idle"
    /\ InFlight < MaxInFlight
    /\ IF role = "VIEWER"
         THEN /\ cancelPc' = "return"
              /\ cancelReq' = Reply("Forbidden")
         ELSE IF order_id \notin OrderIds
         THEN /\ cancelPc' = "return"
              /\ cancelReq' = Reply("NotFound")
         ELSE IF orders[order_id].status \in {"CANCELLED", "REJECTED"}
         THEN /\ cancelPc' = "return"
              /\ cancelReq' = Reply("InvalidState")
         ELSE /\ cancelPc' = "update"
              /\ cancelReq' = [order_id |-> order_id,
                               before_status |-> orders[order_id].status]
    /\ UNCHANGED <<fanVars, monVars, storeVars, sinkVars, sendVars, simVars, caVars, ksVars, actVars>>

\* Role check, SELECT of the order, status check.
CancelOrderRead(role, order_id) ==
    /\ cancelPc = "idle"
    /\ InFlight < MaxInFlight
    /\ IF role = "VIEWER"
         THEN /\ cancelPc' = "return"
              /\ cancelReq' = Reply("Forbidden")
         ELSE IF order_id \notin OrderIds
         THEN /\ cancelPc' = "return"
              /\ cancelReq' = Reply("NotFound")
         ELSE IF orders[order_id].status \in {"FILLED", "CANCELLED", "REJECTED"}
         THEN /\ cancelPc' = "return"
              /\ cancelReq' = Reply("InvalidState")
         ELSE /\ cancelPc' = "update"
              /\ cancelReq' = [order_id |-> order_id,
                               before_status |-> orders[order_id].status]
    /\ UNCHANGED <<fanVars, monVars, storeVars, sinkVars, sendVars, simVars, caVars, ksVars, actVars>>

\* UPDATE orders SET status = 'CANCELLED' WHERE id, then the ORDER_CANCEL audit row.
CancelOrderUpdate ==
    /\ cancelPc = "update"
    /\ orders' = [orders EXCEPT ![cancelReq.order_id].status = "CANCELLED"]
    /\ auditLog' = Audit("ORDER_CANCEL")
    /\ cancelPc' = "return" /\ cancelReq' = Reply("success")
    /\ UNCHANGED <<fanVars, monVars, fills, positions, strategies, haltFlag, systemStatus,
                   broadcasts, published, sendVars, simVars, caVars, ksVars, actVars>>

\* The response is sent and the request ends.
CancelOrderReturn ==
    /\ cancelPc = "return"
    /\ cancelPc' = "idle" /\ cancelReq' = NoReq
    /\ UNCHANGED <<fanVars, monVars, storeVars, sinkVars, sendVars, simVars, caVars, ksVars, actVars>>

cancel_order ==
    \/ \E role \in Roles, order_id \in 1..MaxOrders : CancelOrderRead(role, order_id)
    \/ CancelOrderUpdate
    \/ CancelOrderReturn

\* ------------------------------------------ cancel_all_orders (POST /orders/cancel_all)
\* CancelAllCount turning away only the role VIEWER.
CancelAllCountAdmitsQuant(role) ==
    /\ caPc = "idle"
    /\ InFlight < MaxInFlight
    /\ auditLog["ORDERS_CANCEL_ALL"] < MaxCancelAlls
    /\ IF role = "VIEWER"
         THEN /\ caPc' = "return"
              /\ caReq' = Reply("Forbidden")
         ELSE /\ caPc' = "update"
              /\ caReq' = [before_count |-> Cardinality(OpenOrderIds)]
    /\ UNCHANGED <<fanVars, monVars, storeVars, sinkVars, sendVars, simVars, cancelVars, ksVars, actVars>>

\* Role check and SELECT COUNT(*) of the open orders.
CancelAllCount(role) ==
    /\ caPc = "idle"
    /\ InFlight < MaxInFlight
    /\ auditLog["ORDERS_CANCEL_ALL"] < MaxCancelAlls
    /\ IF role # "ADMIN"
         THEN /\ caPc' = "return"
              /\ caReq' = Reply("Forbidden")
         ELSE /\ caPc' = "update"
              /\ caReq' = [before_count |-> Cardinality(OpenOrderIds)]
    /\ UNCHANGED <<fanVars, monVars, storeVars, sinkVars, sendVars, simVars, cancelVars, ksVars, actVars>>

\* CancelOpen with the cancelled orders' filled_quantity reset.
CancelOpenClearsFilled(statuses) ==
    [i \in OrderIds |->
        IF orders[i].status \in statuses
          THEN [orders[i] EXCEPT !.status = "CANCELLED", !.filled = 0]
          ELSE orders[i]]

CancelOpen(statuses) ==
    [i \in OrderIds |->
        IF orders[i].status \in statuses
          THEN [orders[i] EXCEPT !.status = "CANCELLED"]
          ELSE orders[i]]

\* UPDATE orders SET status = 'CANCELLED' WHERE status IN (...), then the audit row.
CancelAllUpdate ==
    /\ caPc = "update"
    /\ orders' = CancelOpen({"PENDING", "OPEN", "PARTIAL"})
    /\ auditLog' = Audit("ORDERS_CANCEL_ALL")
    /\ caPc' = "return"
    /\ caReq' = [resp |-> "success", orders_cancelled |-> caReq.before_count]
    /\ UNCHANGED <<fanVars, monVars, fills, positions, strategies, haltFlag, systemStatus,
                   broadcasts, published, sendVars, simVars, cancelVars, ksVars, actVars>>

\* The response is sent and the request ends.
CancelAllReturn ==
    /\ caPc = "return"
    /\ caPc' = "idle" /\ caReq' = NoReq
    /\ UNCHANGED <<fanVars, monVars, storeVars, sinkVars, sendVars, simVars, cancelVars, ksVars, actVars>>

cancel_all_orders ==
    \/ \E role \in Roles : CancelAllCount(role)
    \/ CancelAllUpdate
    \/ CancelAllReturn

\* ------------------------------- activate_strategy (POST /strategies/{id}/activate)
\* SELECT of the strategy, already-active shortcut, role check.
ActivateRead(role, strategy_id) ==
    /\ actPc = "idle"
    /\ InFlight < MaxInFlight
    /\ auditLog["STRATEGY_ACTIVATE"] < MaxActivations
    /\ IF strategies[strategy_id] = "ACTIVE"
         THEN /\ actPc' = "return"
              /\ actReq' = Reply("already_active")
         ELSE IF role \notin {"ADMIN", "QUANT"}
         THEN /\ actPc' = "return"
              /\ actReq' = Reply("Forbidden")
         ELSE /\ actPc' = "update"
              /\ actReq' = [strategy_id |-> strategy_id,
                            before_status |-> strategies[strategy_id]]
    /\ UNCHANGED <<fanVars, monVars, storeVars, sinkVars, sendVars, simVars, cancelVars, caVars, ksVars>>

\* UPDATE strategies SET status = 'ACTIVE' WHERE id, then the audit row.
ActivateUpdate ==
    /\ actPc = "update"
    /\ strategies' = [strategies EXCEPT ![actReq.strategy_id] = "ACTIVE"]
    /\ auditLog' = Audit("STRATEGY_ACTIVATE")
    /\ actPc' = "return" /\ actReq' = Reply("success")
    /\ UNCHANGED <<fanVars, monVars, orders, fills, positions, haltFlag, systemStatus,
                   broadcasts, published, sendVars, simVars, cancelVars, caVars, ksVars>>

\* The response is sent and the request ends.
ActivateReturn ==
    /\ actPc = "return"
    /\ actPc' = "idle" /\ actReq' = NoReq
    /\ UNCHANGED <<fanVars, monVars, storeVars, sinkVars, sendVars, simVars, cancelVars, caVars, ksVars>>

activate_strategy ==
    \/ \E role \in Roles, strategy_id \in Strategies : ActivateRead(role, strategy_id)
    \/ ActivateUpdate
    \/ ActivateReturn

\* ------------------------------------------- RiskAlertManager (risk-engine)
\* The websocket objects a running broadcast_alert call holds: those of the set
\* when its iteration began and those it has sent to.
Held(frame) ==
    IF frame = NoReq THEN {}
      ELSE frame.initial \cup frame.visited \cup {frame.sending}

\* A new connection on /ws is a new WebSocket object: none that a running
\* broadcast still holds.  connect(): websocket.accept(), then
\* active_connections.add(websocket); the handler goes on to await get_redis().
WebsocketConnect(w) ==
    /\ wsPc[w] = "closed"
    /\ \A c \in Producers : w \notin Held(bcast[c])
    /\ connections' = connections \cup {w}
    /\ wsPc' = [wsPc EXCEPT ![w] = "accepted"]
    /\ UNCHANGED <<tradeVars, monVars, broadcasts, bcast, received>>

\* The message a subscriber got first, after one more message reaches it.
Deliver(w, message) ==
    IF wsPc[w] # "closed" /\ received[w] = "none"
      THEN [received EXCEPT ![w] = message]
      ELSE received

\* get_redis(), redis.get_json("risk:snapshot") and websocket.send_json of the
\* snapshot; the handler enters its receive loop.
WebsocketSnapshot(w) ==
    /\ wsPc[w] = "accepted"
    /\ received' = Deliver(w, "snapshot")
    /\ wsPc' = [wsPc EXCEPT ![w] = "streaming"]
    /\ UNCHANGED <<tradeVars, monVars, broadcasts, bcast, connections>>

\* websocket_endpoint's except clauses: active_connections.discard(websocket),
\* and the handler and its subscriber are gone.
WebsocketDisconnect(w) ==
    /\ wsPc[w] # "closed"
    /\ connections' = connections \ {w}
    /\ wsPc' = [wsPc EXCEPT ![w] = "closed"]
    /\ received' = [received EXCEPT ![w] = "none"]
    /\ UNCHANGED <<tradeVars, monVars, broadcasts, bcast>>

websocket_endpoint ==
    \/ \E w \in Websockets : WebsocketConnect(w)
    \/ \E w \in Websockets : WebsocketSnapshot(w)
    \/ \E w \in Websockets : WebsocketDisconnect(w)

\* broadcast_alert up to its first await: disconnected = set(), the iterator
\* over active_connections (which records the set's size) and send_json to the
\* first connection it yields.
BroadcastFrames ==
    {[sending |-> w, visited |-> {}, initial |-> connections,
      size |-> Cardinality(connections), disconnected |-> {}] : w \in connections}

\* The frame when the awaited send_json returns (ok) or raises (the bare except
\* adds the connection to disconnected).
SendReturns(frame, ok) ==
    [frame EXCEPT !.visited = @ \cup {frame.sending},
                  !.disconnected = IF ok THEN @ ELSE @ \cup {frame.sending}]

\* The for statement asks the set iterator for the next connection: it raises
\* RuntimeError when the set's size is not the size it recorded.
IterationRaises(frame) == Cardinality(connections) # frame.size

\* The connections the iterator still has to yield, and those it may or may not
\* yield: the ones added to the set since the iteration began.
MustYield(frame) == (frame.initial \cap connections) \ frame.visited
MayYield(frame) == connections \ (frame.initial \cup frame.visited)

\* The iterator is exhausted: the second loop discards the failed connections.
Pruned(frame) == connections \ frame.disconnected

\* ---------------------------------------- execute_kill_switch (POST /risk/kill-switch)
HasPermission(role, permission) ==
    CASE role = "ADMIN" -> permission \in {"kill_switch", "strategy_override",
                                "manual_execution", "strategy_register",
                                "parameter_update", "read_only", "view_audit",
                                "manage_users"}
      [] role = "QUANT" -> permission \in {"strategy_register", "parameter_update",
                                "read_only", "view_audit"}
      [] role = "VIEWER" -> permission \in {"read_only"}
      [] OTHER -> FALSE

\* KillSwitchBegin with the confirm check after the orders are cancelled.
KillSwitchBeginCancelsFirst(role, confirm) ==
    /\ ksPc = "idle"
    /\ InFlight < MaxInFlight
    /\ IF ~HasPermission(role, "kill_switch")
         THEN /\ ksPc' = "return"
              /\ ksReq' = Reply("Forbidden")
              /\ UNCHANGED <<ksDone, orders>>
         ELSE IF ~confirm
         THEN /\ ksPc' = "return"
              /\ ksReq' = Reply("NotConfirmed")
              /\ orders' = [i \in OrderIds |->
                              IF orders[i].status \in {"PENDING", "OPEN"}
                                THEN [orders[i] EXCEPT !.status = "CANCELLED"]
                                ELSE orders[i]]
              /\ UNCHANGED ksDone
         ELSE /\ ksPc' = "count_strategies"
              /\ ksReq' = [open_orders |->
                             Cardinality({i \in OrderIds :
                                 orders[i].status \in {"PENDING", "OPEN"}}),
                           active_strategies |-> 0, positions_closed |-> 0,
                           open_at_start |-> OpenOrderIds,
                           username |-> role, reason |-> "drill"]
              /\ ksDone' = NoKsDone
              /\ UNCHANGED orders
    /\ UNCHANGED <<fanVars, monVars, fills, positions, strategies, haltFlag, systemStatus,
                   sinkVars, sendVars, simVars, cancelVars, caVars, actVars>>

\* require_permission("kill_switch"), the confirm check, and the first statement:
\* SELECT COUNT(*) FROM orders WHERE status IN ('PENDING', 'OPEN').
KillSwitchBegin(role, confirm) ==
    /\ ksPc = "idle"
    /\ InFlight < MaxInFlight
    /\ IF ~HasPermission(role, "kill_switch")
         THEN /\ ksPc' = "return"
              /\ ksReq' = Reply("Forbidden")
              /\ UNCHANGED ksDone
         ELSE IF ~confirm
         THEN /\ ksPc' = "return"
              /\ ksReq' = Reply("NotConfirmed")
              /\ UNCHANGED ksDone
         ELSE /\ ksPc' = "count_strategies"
              /\ ksReq' = [open_orders |->
                             Cardinality({i \in OrderIds :
                                 orders[i].status \in {"PENDING", "OPEN"}}),
                           active_strategies |-> 0, positions_closed |-> 0,
                           open_at_start |-> OpenOrderIds,
                           username |-> role, reason |-> "drill"]
              /\ ksDone' = NoKsDone
    /\ UNCHANGED <<fanVars, monVars, storeVars, sinkVars, sendVars, simVars, cancelVars, caVars, actVars>>

\* SELECT COUNT(*) FROM strategies WHERE status = 'ACTIVE'.
KillSwitchCountStrategies ==
    /\ ksPc = "count_strategies"
    /\ ksReq' = [ksReq EXCEPT !.active_strategies =
                    Cardinality({x \in Strategies : strategies[x] = "ACTIVE"})]
    /\ ksPc' = "cancel_orders"
    /\ UNCHANGED <<fanVars, monVars, storeVars, sinkVars, ksDone, sendVars, simVars, cancelVars, caVars,
                   actVars>>

\* UPDATE orders SET status = 'CANCELLED' WHERE status IN ('PENDING', 'OPEN').
KillSwitchCancelOrders ==
    /\ ksPc = "cancel_orders"
    /\ orders' = CancelOpen({"PENDING", "OPEN"})
    /\ ksDone' = [ksDone EXCEPT !.cancelled =
                    Cardinality({i \in OrderIds : orders'[i].status # orders[i].status})]
    /\ ksPc' = "count_positions"
    /\ UNCHANGED <<fanVars, monVars, fills, positions, strategies, haltFlag, systemStatus, sinkVars, ksReq,
                   sendVars, simVars, cancelVars, caVars, actVars>>

\* KillSwitchCountPositions counting every position row.
KillSwitchCountPositionsAll ==
    /\ ksPc = "count_positions"
    /\ ksReq' = [ksReq EXCEPT !.positions_closed = Len(positions)]
    /\ ksPc' = "zero_positions"
    /\ UNCHANGED <<fanVars, monVars, storeVars, sinkVars, ksDone, sendVars, simVars, cancelVars, caVars,
                   actVars>>

\* SELECT COUNT(*) FROM positions WHERE quantity != 0.
KillSwitchCountPositions ==
    /\ ksPc = "count_positions"
    /\ ksReq' = [ksReq EXCEPT !.positions_closed =
                    Cardinality({k \in 1..Len(positions) : positions[k].quantity # 0})]
    /\ ksPc' = "zero_positions"
    /\ UNCHANGED <<fanVars, monVars, storeVars, sinkVars, ksDone, sendVars, simVars, cancelVars, caVars,
                   actVars>>

\* UPDATE positions SET quantity = 0.
KillSwitchZeroPositions ==
    /\ ksPc = "zero_positions"
    /\ positions' = [k \in 1..Len(positions) |-> [positions[k] EXCEPT !.quantity = 0]]
    /\ ksDone' = [ksDone EXCEPT !.zeroed =
                    Cardinality({k \in 1..Len(positions) : positions[k].quantity # 0})]
    /\ ksPc' = "halt_strategies"
    /\ UNCHANGED <<fanVars, monVars, orders, fills, strategies, haltFlag, systemStatus, sinkVars, ksReq,
                   sendVars, simVars, cancelVars, caVars, actVars>>

\* KillSwitchHaltStrategies followed at once by the broadcast, the halt flag and
\* the system status left for later.
KillSwitchHaltStrategiesThenBroadcast ==
    /\ ksPc = "halt_strategies"
    /\ strategies' = [x \in Strategies |->
                        IF strategies[x] = "ACTIVE" THEN "HALTED" ELSE strategies[x]]
    /\ ksDone' = [ksDone EXCEPT !.halted =
                    Cardinality({x \in Strategies : strategies[x] = "ACTIVE"})]
    /\ ksPc' = "broadcast"
    /\ UNCHANGED <<fanVars, monVars, orders, fills, positions, haltFlag, systemStatus, sinkVars, ksReq,
                   sendVars, simVars, cancelVars, caVars, actVars>>

\* UPDATE strategies SET status = 'HALTED' WHERE status = 'ACTIVE'.
KillSwitchHaltStrategies ==
    /\ ksPc = "halt_strategies"
    /\ strategies' = [x \in Strategies |->
                        IF strategies[x] = "ACTIVE" THEN "HALTED" ELSE strategies[x]]
    /\ ksDone' = [ksDone EXCEPT !.halted =
                    Cardinality({x \in Strategies : strategies[x] = "ACTIVE"})]
    /\ ksPc' = "set_flag"
    /\ UNCHANGED <<fanVars, monVars, orders, fills, positions, haltFlag, systemStatus, sinkVars, ksReq,
                   sendVars, simVars, cancelVars, caVars, actVars>>

\* UPDATE system_state SET value = 'true' WHERE key = 'kill_switch_active'.
KillSwitchSetFlag ==
    /\ ksPc = "set_flag"
    /\ haltFlag' = TRUE
    /\ ksDone' = [ksDone EXCEPT !.flagSet = ~haltFlag]
    /\ ksPc' = "set_status"
    /\ UNCHANGED <<fanVars, monVars, orders, fills, positions, strategies, systemStatus, sinkVars, ksReq,
                   sendVars, simVars, cancelVars, caVars, actVars>>

\* UPDATE system_state SET value = '"EMERGENCY"' WHERE key = 'system_status'.
KillSwitchSetStatus ==
    /\ ksPc = "set_status"
    /\ systemStatus' = "EMERGENCY"
    /\ ksDone' = [ksDone EXCEPT !.statusSet = (systemStatus # "EMERGENCY")]
    /\ ksPc' = "audit"
    /\ UNCHANGED <<fanVars, monVars, orders, fills, positions, strategies, haltFlag, sinkVars, ksReq,
                   sendVars, simVars, cancelVars, caVars, actVars>>

\* log_audit(... "KILL_SWITCH_EXECUTE" ...).
KillSwitchAudit ==
    /\ ksPc = "audit"
    /\ auditLog' = Audit("KILL_SWITCH_EXECUTE")
    /\ ksPc' = "broadcast"
    /\ UNCHANGED <<fanVars, monVars, storeVars, broadcasts, published, ksReq, ksDone,
                   sendVars, simVars, cancelVars, caVars, actVars>>

\* The alert of lines 403-416, from the handler's locals.
KillSwitchAlert ==
    [channel |-> "risk_alerts", type |-> "KILL_SWITCH", severity |-> "CRITICAL",
     message |-> ksReq.username, reason |-> ksReq.reason,
     orders_cancelled |-> ksReq.open_orders,
     positions_closed |-> ksReq.positions_closed,
     strategies_halted |-> ksReq.active_strategies]

\* The event of lines 419-424 for the redis channel system_alerts.
SystemAlert ==
    [type |-> "KILL_SWITCH", executed_by |-> ksReq.username, reason |-> ksReq.reason]

\* alert_manager.broadcast_alert({... "type": "KILL_SWITCH" ...}) with no
\* connection registered: the call returns without awaiting anything.
KillSwitchBroadcast ==
    /\ ksPc = "broadcast"
    /\ connections = {}
    /\ broadcasts' = broadcasts + 1
    /\ ksPc' = "publish"
    /\ UNCHANGED <<fanVars, monVars, storeVars, auditLog, published, ksReq, ksDone,
                   sendVars, simVars, cancelVars, caVars, actVars>>

\* redis.publish("system_alerts", ...) and the KillSwitchResponse(success=True).
KillSwitchPublish ==
    /\ ksPc = "publish"
    /\ published' = published + 1
    /\ ksPc' = "return"
    /\ ksReq' = [resp |-> "success", orders_cancelled |-> ksReq.open_orders,
                 positions_closed |-> ksReq.positions_closed,
                 strategies_halted |-> ksReq.active_strategies]
    /\ UNCHANGED <<fanVars, monVars, storeVars, auditLog, broadcasts, ksDone,
                   sendVars, simVars, cancelVars, caVars, actVars>>

\* The same call with connections registered: it awaits its first send_json.
KillSwitchBroadcastBegin ==
    /\ ksPc = "broadcast"
    /\ connections # {}
    /\ broadcasts' = broadcasts + 1
    /\ \E frame \in BroadcastFrames : bcast' = [bcast EXCEPT !["kill_switch"] = frame]
    /\ ksPc' = "broadcasting"
    /\ UNCHANGED <<monVars, storeVars, auditLog, published, ksReq, ksDone, connections,
                   wsPc, received, sendVars, simVars, cancelVars, caVars, actVars>>

\* The awaited send_json returns or raises, and broadcast_alert runs on to its
\* next await: the next send_json, or, the iteration over, the pruning and the
\* return into execute_kill_switch; a RuntimeError of the iterator ends in the
\* except clause of lines 433-435.
KillSwitchBroadcastStep(ok) ==
    /\ ksPc = "broadcasting"
    /\ LET frame == SendReturns(bcast["kill_switch"], ok) IN
        IF IterationRaises(frame)
          THEN /\ bcast' = [bcast EXCEPT !["kill_switch"] = NoReq]
               /\ ksPc' = "return"
               /\ ksReq' = Reply("failed")
               /\ UNCHANGED connections
          ELSE \/ /\ \E w \in MustYield(frame) \cup MayYield(frame) :
                        bcast' = [bcast EXCEPT !["kill_switch"] =
                                    [frame EXCEPT !.sending = w]]
                  /\ UNCHANGED <<ksPc, ksReq, connections>>
               \/ /\ MustYield(frame) = {}
                  /\ bcast' = [bcast EXCEPT !["kill_switch"] = NoReq]
                  /\ connections' = Pruned(frame)
                  /\ ksPc' = "publish"
                  /\ UNCHANGED ksReq
    /\ received' = IF ok THEN Deliver(bcast["kill_switch"].sending, "alert") ELSE received
    /\ UNCHANGED <<monVars, storeVars, sinkVars, ksDone, wsPc, sendVars, simVars, cancelVars,
                   caVars, actVars>>

kill_switch_broadcast ==
    \/ KillSwitchBroadcastBegin
    \/ \E ok \in BOOLEAN : KillSwitchBroadcastStep(ok)

KillSwitchSteps == {"count_strategies", "cancel_orders", "count_positions",
                    "zero_positions", "halt_strategies", "set_flag", "set_status",
                    "audit", "broadcast", "publish"}

\* KillSwitchFail with the except clause putting the halt flag back.
KillSwitchFailResetsFlag ==
    /\ ksPc \in KillSwitchSteps
    /\ ksPc' = "return"
    /\ ksReq' = Reply("failed")
    /\ haltFlag' = FALSE
    /\ UNCHANGED <<fanVars, monVars, orders, fills, positions, strategies, systemStatus,
                   sinkVars, ksDone, sendVars, simVars, cancelVars, caVars, actVars>>

\* The statement the handler is about to run raises: the except clause (or, for
\* the count before the try, the framework) answers 500 and nothing is undone.
KillSwitchFail ==
    /\ ksPc \in KillSwitchSteps
    /\ ksPc' = "return"
    /\ ksReq' = Reply("failed")
    /\ UNCHANGED <<fanVars, monVars, storeVars, sinkVars, ksDone, sendVars, simVars, cancelVars, caVars,
                   actVars>>

\* The response is sent and the request ends.
KillSwitchReturn ==
    /\ ksPc = "return"
    /\ ksPc' = "idle" /\ ksReq' = NoReq
    /\ ksDone' = NoKsDone
    /\ UNCHANGED <<fanVars, monVars, storeVars, sinkVars, sendVars, simVars, cancelVars, caVars, actVars>>

\* runs: how many executions the callers ask for.
execute_kill_switch(runs) ==
    \/ /\ auditLog["KILL_SWITCH_EXECUTE"] < runs
       /\ \E role \in Roles, confirm \in BOOLEAN : KillSwitchBegin(role, confirm)
    \/ KillSwitchCountStrategies
    \/ KillSwitchCancelOrders
    \/ KillSwitchCountPositions
    \/ KillSwitchZeroPositions
    \/ KillSwitchHaltStrategies
    \/ KillSwitchSetFlag
    \/ KillSwitchSetStatus
    \/ KillSwitchAudit
    \/ KillSwitchBroadcast
    \/ KillSwitchPublish
    \/ KillSwitchFail
    \/ KillSwitchReturn

\* ------------------------------------------- check_mandate_breaches (risk-engine)
\* float(x) if x else 0: NULL and 0 both give 0.
FloatOrZero(x) == IF x = NULL THEN 0 ELSE x[1]

\* "if limit and ...": a limit that is NULL or 0 is falsy.
Truthy(x) == x # NULL /\ x[1] # 0

\* ComputeStatus with the soft limit tested before the hard limit.
ComputeStatusSoftFirst(row) ==
    LET current == FloatOrZero(row.current_value) IN
    IF Truthy(row.soft_limit) /\ Abs(current) >= Abs(row.soft_limit[1])
      THEN "WARNING"
      ELSE IF Truthy(row.hard_limit) /\ Abs(current) >= Abs(row.hard_limit[1])
      THEN "BREACH"
      ELSE "OK"

\* new_status of lines 119-127.
ComputeStatus(row) ==
    LET current == FloatOrZero(row.current_value) IN
    IF Truthy(row.hard_limit) /\ Abs(current) >= Abs(row.hard_limit[1])
      THEN "BREACH"
      ELSE IF Truthy(row.soft_limit) /\ Abs(current) >= Abs(row.soft_limit[1])
      THEN "WARNING"
      ELSE "OK"

\* alert_severity of lines 120-127.
ComputeSeverity(row) ==
    LET new_status == ComputeStatus(row) IN
    IF new_status = "BREACH" THEN <<"CRITICAL">>
      ELSE IF new_status = "WARNING" THEN <<"WARNING">>
      ELSE NULL

\* Line 143: the limit the alert names, hard_limit if new_status == "BREACH"
\* else soft_limit.
AlertLimit(row) ==
    IF ComputeStatus(row) = "BREACH" THEN row.hard_limit ELSE row.soft_limit

\* The values current + current * uniform(-0.02, 0.02) can take, on the integer
\* scale of the model: one step up or down, never across or onto zero.
Varied(x) ==
    LET current == FloatOrZero(x) IN
    IF current = 0 THEN {0}
      ELSE {v \in {current - 1, current, current + 1} :
              /\ v * current > 0
              /\ Abs(v) <= MaxValue}

\* ActiveIds without the is_active filter.
AnyIds == MandateIds

\* WHERE is_active = true (lines 112 and 179).
ActiveIds == {m \in MandateIds : mandates[m].is_active}

\* The ids of a set of rows as the sequence a SELECT returns.
RECURSIVE SeqOf(_)
SeqOf(S) ==
    IF S = {} THEN << >>
      ELSE LET m == CHOOSE x \in S : \A y \in S : x = "m1" \/ y # "m1"
           IN <<m>> \o SeqOf(S \ {m})

\* risk_monitoring_loop, lines 178-188: each active mandate is, with a 10%
\* chance, given a varied current_value.  One task runs the loop and nothing
\* else writes risk_mandates, so the SELECT and the UPDATEs are one step.
MonitorVary ==
    /\ monPc = "idle"
    /\ broadcasts < MaxAlerts
    /\ \E chosen \in SUBSET ActiveIds :
         \E new \in [chosen -> -MaxValue..MaxValue] :
            /\ \A m \in chosen : new[m] \in Varied(mandates[m].current_value)
            /\ mandates' = [m \in MandateIds |->
                              IF m \in chosen
                                THEN [mandates[m] EXCEPT !.current_value = <<new[m]>>]
                                ELSE mandates[m]]
    /\ monPc' = "fetch"
    /\ UNCHANGED <<fanVars, tradeVars, acknowledged, broadcasts, alerts, monBatch, streak>>

\* check_mandate_breaches, line 112: SELECT * FROM risk_mandates WHERE is_active.
MonitorFetch ==
    /\ monPc = "fetch"
    /\ monBatch' = [k \in 1..Cardinality(ActiveIds) |->
                      [id |-> SeqOf(ActiveIds)[k], row |-> mandates[SeqOf(ActiveIds)[k]]]]
    /\ monPc' = "check"
    /\ UNCHANGED <<fanVars, tradeVars, acknowledged, broadcasts, mandates, alerts, streak>>

\* StatusChanged when every pass counts as a change (level-triggered).
StatusChangedAlways(row, new_status) == TRUE

\* Line 129: the fetched row's status against the one just computed.
StatusChanged(row, new_status) == row.status # new_status

\* History: the run of consecutive evaluations of one mandate that computed the
\* same status, and the alerts sent during it.
Evaluated(st, new_status, sent) ==
    IF st.status = new_status
      THEN [st EXCEPT !.passes = IF @ < MaxPasses THEN @ + 1 ELSE @,
                      !.alerts = @ + sent]
      ELSE [status |-> new_status, passes |-> 1, alerts |-> sent]

\* One turn of the loop of lines 114-163 on the next fetched row; an alert is
\* broadcast with no connection registered, so that broadcast_alert returns
\* without awaiting anything.  With insert_raises the INSERT of line 157 raises:
\* the pass ends in the except clause of risk_monitoring_loop, after the UPDATE
\* and the broadcast.
MonitorEvaluate(insert_raises) ==
    /\ monPc = "check"
    /\ monBatch # << >>
    /\ LET id == Head(monBatch).id
           row == Head(monBatch).row
           new_status == ComputeStatus(row)
           alert_severity == ComputeSeverity(row)
       IN
        IF ~StatusChanged(row, new_status)
          THEN /\ ~insert_raises
               /\ monBatch' = Tail(monBatch)
               /\ streak' = [streak EXCEPT ![id] = Evaluated(@, new_status, 0)]
               /\ UNCHANGED <<mandates, alerts, broadcasts, monPc>>
          ELSE IF alert_severity = NULL
          THEN /\ ~insert_raises
               /\ mandates' = [mandates EXCEPT ![id].status = new_status]
               /\ monBatch' = Tail(monBatch)
               /\ streak' = [streak EXCEPT ![id] = Evaluated(@, new_status, 0)]
               /\ UNCHANGED <<alerts, broadcasts, monPc>>
          ELSE /\ connections = {}
               /\ mandates' = [mandates EXCEPT ![id].status = new_status]
               /\ broadcasts' = broadcasts + 1
               /\ streak' = [streak EXCEPT ![id] = Evaluated(@, new_status, 1)]
               /\ IF insert_raises
                    THEN /\ monBatch' = << >>
                         /\ monPc' = "idle"
                         /\ UNCHANGED alerts
                    ELSE /\ alerts' = [alerts EXCEPT ![id][alert_severity[1]] = @ + 1]
                         /\ monBatch' = Tail(monBatch)
                         /\ UNCHANGED monPc
    /\ UNCHANGED <<fanVars, tradeVars, acknowledged>>

\* The pass ends: risk:snapshot is written and the loop sleeps.
MonitorFinish ==
    /\ monPc = "check"
    /\ monBatch = << >>
    /\ monPc' = "idle"
    /\ UNCHANGED <<fanVars, tradeVars, acknowledged, broadcasts, mandates, alerts, monBatch, streak>>

\* A SELECT or an UPDATE of the pass raises, and has no effect: except clause
\* of lines 217-219, and the loop sleeps.
MonitorFail ==
    /\ monPc \in {"fetch", "check"}
    /\ monPc' = "idle"
    /\ monBatch' = << >>
    /\ UNCHANGED <<fanVars, tradeVars, acknowledged, broadcasts, mandates, alerts, streak>>

\* The turn of the loop for a row whose status changed to WARNING or BREACH,
\* with connections registered: the UPDATE of line 131, then broadcast_alert up
\* to its first send_json.
MonitorAlert ==
    /\ monPc = "check"
    /\ monBatch # << >>
    /\ connections # {}
    /\ LET id == Head(monBatch).id
           row == Head(monBatch).row
           new_status == ComputeStatus(row)
       IN
        /\ StatusChanged(row, new_status)
        /\ ComputeSeverity(row) # NULL
        /\ mandates' = [mandates EXCEPT ![id].status = new_status]
        /\ streak' = [streak EXCEPT ![id] = Evaluated(@, new_status, 1)]
    /\ broadcasts' = broadcasts + 1
    /\ \E frame \in BroadcastFrames : bcast' = [bcast EXCEPT !["monitor"] = frame]
    /\ monPc' = "broadcasting"
    /\ UNCHANGED <<tradeVars, acknowledged, alerts, monBatch, connections, wsPc, received>>

\* The awaited send_json returns or raises, and broadcast_alert runs on to its
\* next await: the next send_json, or, the iteration over, the pruning and the
\* return to line 157; a RuntimeError of the iterator ends the pass in the
\* except clause of lines 217-219.
MonitorBroadcastStep(ok) ==
    /\ monPc = "broadcasting"
    /\ LET frame == SendReturns(bcast["monitor"], ok) IN
        IF IterationRaises(frame)
          THEN /\ bcast' = [bcast EXCEPT !["monitor"] = NoReq]
               /\ monPc' = "idle"
               /\ monBatch' = << >>
               /\ UNCHANGED connections
          ELSE \/ /\ \E w \in MustYield(frame) \cup MayYield(frame) :
                        bcast' = [bcast EXCEPT !["monitor"] = [frame EXCEPT !.sending = w]]
                  /\ UNCHANGED <<monPc, monBatch, connections>>
               \/ /\ MustYield(frame) = {}
                  /\ bcast' = [bcast EXCEPT !["monitor"] = NoReq]
                  /\ connections' = Pruned(frame)
                  /\ monPc' = "store"
                  /\ UNCHANGED monBatch
    /\ received' = IF ok THEN Deliver(bcast["monitor"].sending, "alert") ELSE received
    /\ UNCHANGED <<tradeVars, acknowledged, broadcasts, mandates, alerts, streak, wsPc>>

\* INSERT INTO risk_alerts (line 157) for the row just broadcast, or its raising.
MonitorStore(insert_raises) ==
    /\ monPc = "store"
    /\ LET id == Head(monBatch).id
           alert_severity == ComputeSeverity(Head(monBatch).row)
       IN
        IF insert_raises
          THEN /\ monBatch' = << >>
               /\ monPc' = "idle"
               /\ UNCHANGED alerts
          ELSE /\ alerts' = [alerts EXCEPT ![id][alert_severity[1]] = @ + 1]
               /\ monBatch' = Tail(monBatch)
               /\ monPc' = "check"
    /\ UNCHANGED <<fanVars, tradeVars, acknowledged, broadcasts, mandates, streak>>

\* --------------------------- acknowledge_alert (POST /risk/alerts/{id}/acknowledge)
\* AcknowledgeAlert flipping is_acknowledged instead of setting it.
AcknowledgeAlertToggles(m, severity, was_acknowledged) ==
    /\ IF was_acknowledged
         THEN /\ acknowledged[m][severity] > 0
              /\ acknowledged' = [acknowledged EXCEPT ![m][severity] = @ - 1]
         ELSE /\ alerts[m][severity] > acknowledged[m][severity]
              /\ acknowledged' = [acknowledged EXCEPT ![m][severity] = @ + 1]
    /\ UNCHANGED <<fanVars, tradeVars, broadcasts, mandates, alerts, monPc, monBatch, streak>>

\* UPDATE risk_alerts SET is_acknowledged = true, acknowledged_by, acknowledged_at
\* WHERE id = alert_id, for any authenticated caller; the addressed row is one of
\* mandate m and the given severity, acknowledged before or not.
AcknowledgeAlert(m, severity, was_acknowledged) ==
    /\ IF was_acknowledged
         THEN /\ acknowledged[m][severity] > 0
              /\ UNCHANGED acknowledged
         ELSE /\ alerts[m][severity] > acknowledged[m][severity]
              /\ acknowledged' = [acknowledged EXCEPT ![m][severity] = @ + 1]
    /\ UNCHANGED <<fanVars, tradeVars, broadcasts, mandates, alerts, monPc, monBatch, streak>>

\* The same UPDATE with an alert_id that no row has: it changes nothing.
AcknowledgeUnknown ==
    UNCHANGED vars

acknowledge_alert ==
    \/ \E m \in MandateIds, severity \in Severities, was_acknowledged \in BOOLEAN :
            AcknowledgeAlert(m, severity, was_acknowledged)
    \/ AcknowledgeUnknown

monitor_broadcast ==
    \/ MonitorAlert
    \/ \E ok \in BOOLEAN : MonitorBroadcastStep(ok)
    \/ \E insert_raises \in BOOLEAN : MonitorStore(insert_raises)

risk_monitoring_loop ==
    \/ MonitorVary
    \/ MonitorFetch
    \/ \E insert_raises \in BOOLEAN : MonitorEvaluate(insert_raises)
    \/ MonitorFinish
    \/ MonitorFail

\* ---------------------------------------------------------- specifications
\* The whole system.
Next ==
    \/ send_order(OrderSides, Strategies \cup {NoStrategy})
    \/ simulate_order_execution(Prices)
    \/ cancel_order
    \/ cancel_all_orders
    \/ execute_kill_switch(MaxKillSwitches)
    \/ activate_strategy

Spec == Init /\ [][Next]_vars

\* The store as the services find it: no order yet, s1 running, s2 not.
StrategiesAtStart == [x \in Strategies |-> IF x = "s1" THEN "ACTIVE" ELSE "INACTIVE"]

TradingInit ==
    /\ Init
    /\ strategies = StrategiesAtStart

\* The order lifecycle: intake, fills and cancellation.
OrderNext ==
    \/ send_order({"BUY"}, {"s1"})
    \/ simulate_order_execution(FlatPrices)
    \/ cancel_order
    \/ cancel_all_orders

OrderSpec == TradingInit /\ [][OrderNext]_vars

\* The kill switch against order intake and fills.
KillNext ==
    \/ send_order({"BUY"}, {"s1"})
    \/ simulate_order_execution(FlatPrices)
    \/ execute_kill_switch(MaxKillSwitches)

KillSpec == TradingInit /\ [][KillNext]_vars

\* Fills and positions under a moving price: orders of either side, owned by a
\* strategy or by none.
FillNext ==
    \/ send_order(OrderSides, {"s1", NoStrategy})
    \/ simulate_order_execution(Prices)

FillSpec == TradingInit /\ [][FillNext]_vars

\* Every handler that checks the caller's role, against each other.
AccessNext ==
    \/ send_order({"BUY"}, {"s1"})
    \/ cancel_order
    \/ cancel_all_orders
    \/ execute_kill_switch(MaxKillSwitches)

AccessSpec == TradingInit /\ [][AccessNext]_vars

\* The kill switch run again and again on a store that nothing else touches.
\* The order rows the lifecycle leaves behind for a BUY order of strategy s1.
StoredOrders ==
    {[symbol |-> "AAPL", side |-> "BUY", quantity |-> q, filled |-> f,
      average_fill_price |-> IF f = 0 THEN NULL ELSE <<50>>,
      status |-> st, strategy |-> "s1", haltAtInsert |-> FALSE] :
        q \in 1..MaxQty, f \in 0..MaxQty, st \in {"PENDING", "PARTIAL", "FILLED", "CANCELLED"}}

StoredOrder(o) ==
    CASE o.status = "PENDING" -> o.filled = 0
      [] o.status = "PARTIAL" -> 0 < o.filled /\ o.filled < o.quantity
      [] o.status = "FILLED" -> o.filled = o.quantity
      [] OTHER -> o.filled < o.quantity

\* The sum of the filled quantities of a sequence of order rows.
RECURSIVE TotalFilled(_)
TotalFilled(rows) ==
    IF rows = << >> THEN 0 ELSE Head(rows).filled + TotalFilled(Tail(rows))

\* One fill row for every order row that has been filled.
RECURSIVE StoredFills(_, _)
StoredFills(rows, i) ==
    IF i > Len(rows) THEN << >>
    ELSE IF rows[i].filled = 0 THEN StoredFills(rows, i + 1)
    ELSE <<[order_id |-> i, quantity |-> rows[i].filled, price |-> 50]>>
             \o StoredFills(rows, i + 1)

\* Orders with their fills applied, the position they add up to, strategies in
\* any status, no halt yet.
StoreInit ==
    /\ strategies \in [Strategies -> StrategyStatuses]
    /\ haltFlag = FALSE
    /\ systemStatus = "NORMAL"
    /\ auditLog = [a \in AuditActions |-> 0]
    /\ broadcasts = 0
    /\ published = 0
    /\ sendPc = "idle" /\ sendReq = NoReq
    /\ simPc = "idle" /\ simBatch = {} /\ simCur = NoReq
    /\ cancelPc = "idle" /\ cancelReq = NoReq
    /\ caPc = "idle" /\ caReq = NoReq
    /\ ksPc = "idle" /\ ksReq = NoReq /\ ksDone = NoKsDone
    /\ actPc = "idle" /\ actReq = NoReq
    /\ alerts = [m \in MandateIds |-> [v \in Severities |-> 0]]
    /\ acknowledged = [m \in MandateIds |-> [v \in Severities |-> 0]]
    /\ monPc = "idle" /\ monBatch = << >>
    /\ streak = [m \in MandateIds |-> NoStreak]
    /\ connections = {}
    /\ bcast = [c \in Producers |-> NoReq]
    /\ wsPc = [w \in Websockets |-> "closed"]
    /\ received = [w \in Websockets |-> "none"]
    /\ mandates = [m \in MandateIds |->
                     [soft_limit |-> <<1>>, hard_limit |-> <<2>>, current_value |-> <<0>>,
                      status |-> "OK", is_active |-> TRUE]]
    /\ \E n \in 0..MaxOrders :
         \E rows \in [1..n -> {o \in StoredOrders : StoredOrder(o)}] :
            /\ orders = rows
            /\ fills = StoredFills(rows, 1)
            /\ positions = IF TotalFilled(rows) = 0 THEN << >>
                             ELSE <<[strategy |-> "s1", symbol |-> "AAPL",
                                     quantity |-> TotalFilled(rows),
                                     average_entry_price |-> 50, current_price |-> 50]>>

RepeatNext == execute_kill_switch(MaxKillSwitches + 1)

RepeatSpec == StoreInit /\ [][RepeatNext]_vars

\* The kill switch against strategy activation, from every strategy status.
StrategyNext ==
    \/ execute_kill_switch(MaxKillSwitches)
    \/ activate_strategy

StrategySpec == Init /\ [][StrategyNext]_vars

\* The mandate monitor: the first mandate with every combination of limits
\* (unset, zero, negative, positive), current value, persisted status and
\* active flag; the second with both limits set, active or not.
MandateInit ==
    /\ InitStore
    /\ strategies = StrategiesAtStart
    /\ \E row \in MandateRows, active \in BOOLEAN :
          mandates = [m \in MandateIds |->
                        IF m = "m1" THEN row
                          ELSE [soft_limit |-> <<1>>, hard_limit |-> <<2>>,
                                current_value |-> <<1>>, status |-> "OK",
                                is_active |-> active]]

MandateSpec == MandateInit /\ [][risk_monitoring_loop]_vars

\* Alert fan-out: the monitor and the kill switch broadcasting to websocket
\* subscribers that connect and disconnect; one mandate at its soft limit.
FanoutInit ==
    /\ InitStore
    /\ strategies = StrategiesAtStart
    /\ mandates = [m \in MandateIds |->
                     [soft_limit |-> <<1>>, hard_limit |-> <<2>>, current_value |-> <<1>>,
                      status |-> "OK", is_active |-> (m = "m1")]]

FanoutNext ==
    \/ risk_monitoring_loop
    \/ monitor_broadcast
    \/ execute_kill_switch(MaxKillSwitches)
    \/ kill_switch_broadcast
    \/ websocket_endpoint

FanoutSpec == FanoutInit /\ [][FanoutNext]_vars

\* Alerts stored by the monitor and acknowledged by operators; both mandates
\* active at their soft limit.
AlertInit ==
    /\ InitStore
    /\ strategies = StrategiesAtStart
    /\ mandates = [m \in MandateIds |->
                     [soft_limit |-> <<1>>, hard_limit |-> <<2>>, current_value |-> <<1>>,
                      status |-> "OK", is_active |-> TRUE]]

AlertNext ==
    \/ risk_monitoring_loop
    \/ acknowledge_alert

AlertSpec == AlertInit /\ [][AlertNext]_vars

\* A subscriber that never reads: a send_json to it need never return.
SlowSubscribers == {"w2"}

\* The event loop runs every task that can run; only a send_json to a slow
\* subscriber whose connection is open may stay pending for ever.
MonitorSendReturns ==
    /\ \E ok \in BOOLEAN : MonitorBroadcastStep(ok)
    /\ \/ bcast["monitor"].sending \notin SlowSubscribers
       \/ wsPc[bcast["monitor"].sending] = "closed"

KillSwitchSendReturns ==
    /\ \E ok \in BOOLEAN : KillSwitchBroadcastStep(ok)
    /\ \/ bcast["kill_switch"].sending \notin SlowSubscribers
       \/ wsPc[bcast["kill_switch"].sending] = "closed"

FanoutFairSpec ==
    /\ FanoutInit
    /\ [][FanoutNext]_vars
    /\ WF_vars(risk_monitoring_loop)
    /\ WF_vars(MonitorAlert)
    /\ WF_vars(\E insert_raises \in BOOLEAN : MonitorStore(insert_raises))
    /\ WF_vars(MonitorSendReturns)
    /\ WF_vars(execute_kill_switch(MaxKillSwitches))
    /\ WF_vars(KillSwitchBroadcastBegin)
    /\ WF_vars(KillSwitchSendReturns)

\* The monitor with both mandates active and subscribers coming and going.
\* Every statement that can succeed infinitely often does succeed eventually
\* for every mandate (store and cache errors are passing), and a pending
\* send_json returns unless it is to a slow subscriber whose connection stays
\* open.
MonitorFairNext ==
    \/ risk_monitoring_loop
    \/ monitor_broadcast
    \/ websocket_endpoint

MonitorFairSpec ==
    /\ AlertInit
    /\ [][MonitorFairNext]_vars
    /\ WF_vars(MonitorVary)
    /\ SF_vars(MonitorFetch)
    /\ SF_vars(MonitorFinish)
    /\ \A m \in MandateIds :
          /\ SF_vars(MonitorEvaluate(FALSE) /\ Head(monBatch).id = m)
          /\ SF_vars(MonitorAlert /\ Head(monBatch).id = m)
          /\ SF_vars(MonitorStore(FALSE) /\ Head(monBatch).id = m)
    /\ WF_vars(MonitorSendReturns)

\* ------------------------------------------------------------------ claims
KillSwitchFails ==
    /\ ksPc \in KillSwitchSteps
    /\ ksPc' = "return"
    /\ ksReq'.resp = "failed"

KillSwitchSucceeds ==
    /\ ksPc = "publish"
    /\ ksPc' = "return"
    /\ ksReq'.resp = "success"

\* C1: in every reachable state every order has 0 <= filled_quantity <= quantity,
\* and its status is FILLED if and only if filled_quantity = quantity.
C1_FilledWithinQuantity ==
    \A i \in OrderIds :
        /\ 0 <= orders[i].filled
        /\ orders[i].filled <= orders[i].quantity
        /\ (orders[i].status = "FILLED") <=> (orders[i].filled = orders[i].quantity)

StatusEdge(from, to) ==
    \/ from = "PENDING" /\ to \in {"OPEN", "PARTIAL", "FILLED", "CANCELLED", "REJECTED"}
    \/ from \in {"OPEN", "PARTIAL"} /\ to \in {"PARTIAL", "FILLED", "CANCELLED"}

\* C2: every change of an order's status follows an edge of the lifecycle; an order
\* in FILLED, CANCELLED or REJECTED never changes status again.
C2_StatusEdges ==
    [][\A i \in OrderIds :
          orders'[i].status # orders[i].status
            => StatusEdge(orders[i].status, orders'[i].status)]_vars

\* C3: whenever execute_kill_switch reports failure, the halt flag is unset, the
\* system status is not EMERGENCY, and the call has cancelled no order, zeroed no
\* position and halted no strategy.
C3_KillSwitchAllOrNothing ==
    [][KillSwitchFails =>
          /\ ~haltFlag'
          /\ systemStatus' # "EMERGENCY"
          /\ ksDone.cancelled = 0
          /\ ksDone.zeroed = 0
          /\ ksDone.halted = 0]_vars

\* C4: no order is inserted by send_order in a state where the halt flag is set.
C4_NoInsertWhileHalted ==
    \A i \in OrderIds : ~orders[i].haltAtInsert

\* C5: when execute_kill_switch returns success, every order that was PENDING, OPEN
\* or PARTIAL when the call began is in a terminal status.
C5_OpenOrdersTerminalOnSuccess ==
    [][KillSwitchSucceeds =>
          \A i \in ksReq.open_at_start : orders'[i].status \in TerminalStatuses]_vars

\* C6: when execute_kill_switch returns success, every position has quantity 0.
C6_PositionsZeroOnSuccess ==
    [][KillSwitchSucceeds =>
          \A k \in 1..Len(positions') : positions'[k].quantity = 0]_vars

\* C7: when execute_kill_switch returns success, no strategy is ACTIVE.
C7_NoActiveStrategyOnSuccess ==
    [][KillSwitchSucceeds =>
          \A x \in Strategies : strategies'[x] # "ACTIVE"]_vars

KillSwitchNotConfirmed ==
    /\ ksPc = "idle"
    /\ ksPc' = "return"
    /\ ksReq'.resp = "NotConfirmed"

\* C8: execute_kill_switch with confirm = false is rejected with NotConfirmed and
\* changes no order, fill, position, strategy, halt flag, system status or audit
\* row, and broadcasts and publishes nothing.
C8_NotConfirmedChangesNothing ==
    [][KillSwitchNotConfirmed => UNCHANGED <<storeVars, sinkVars>>]_vars

\* C8 witness: a call was rejected with NotConfirmed while an open order, a
\* non-zero position and an ACTIVE strategy existed for it to act on.
C8_Witness ==
    /\ ksPc = "return"
    /\ ksReq.resp = "NotConfirmed"
    /\ \E i \in OrderIds : orders[i].status \in {"PENDING", "OPEN"}
    /\ \E k \in 1..Len(positions) : positions[k].quantity # 0
    /\ \E x \in Strategies : strategies[x] = "ACTIVE"
    /\ ~haltFlag

\* An evaluation of the next fetched row finds the persisted status equal to
\* the status it computes.
EvaluatesUnchanged ==
    /\ monPc = "check"
    /\ monBatch # << >>
    /\ Head(monBatch).row.status = ComputeStatus(Head(monBatch).row)

\* C9: mandate alerts are edge-triggered: a pass that finds the computed status
\* of an active mandate equal to its persisted status stores and broadcasts no
\* alert, and any run of consecutive evaluations of a mandate that compute the
\* same WARNING or BREACH status sends at most one alert.
C9_AlertsEdgeTriggered ==
    /\ [](\A m \in MandateIds :
            streak[m].status \in {"WARNING", "BREACH"} => streak[m].alerts <= 1)
    /\ [][EvaluatesUnchanged => UNCHANGED <<alerts, broadcasts>>]_vars

\* C9 witness: a mandate was evaluated at least twice in a row at the same
\* WARNING or BREACH status, and the first of these evaluations sent an alert.
C9_Witness ==
    \E m \in MandateIds :
        /\ streak[m].status \in {"WARNING", "BREACH"}
        /\ streak[m].passes >= 2
        /\ streak[m].alerts = 1
        /\ alerts[m]["WARNING"] + alerts[m]["CRITICAL"] >= 1

\* The next fetched row is evaluated and its status decided (the step is not a
\* statement raising before the row's status is settled).
MonitorEvaluated ==
    /\ monPc = "check"
    /\ monBatch # << >>
    /\ monPc' = "check" \/ broadcasts' # broadcasts

\* The status as the claim states it: a limit is set when it is not NULL and is
\* reached when |current_value| is at least the limit.
ClaimedStatus(soft_limit, hard_limit, current_value) ==
    LET current == IF current_value = NULL THEN 0 ELSE Abs(current_value[1]) IN
    IF hard_limit # NULL /\ current >= hard_limit[1] THEN "BREACH"
      ELSE IF soft_limit # NULL /\ current >= soft_limit[1] THEN "WARNING"
      ELSE "OK"

\* The status with a limit counting as set when it is neither NULL nor 0, and
\* as reached when |current_value| is at least |limit|.
AmendedStatus(soft_limit, hard_limit, current_value) ==
    LET current == IF current_value = NULL THEN 0 ELSE Abs(current_value[1])
        Reached(limit) == limit \notin {NULL, <<0>>} /\ current >= Abs(limit[1])
    IN
    IF Reached(hard_limit) THEN "BREACH"
      ELSE IF Reached(soft_limit) THEN "WARNING"
      ELSE "OK"

\* C10 as stated: after check_mandate_breaches evaluates an active mandate its
\* status is BREACH if the hard limit is set and |current_value| reaches it,
\* otherwise WARNING if the soft limit is set and |current_value| reaches it,
\* otherwise OK.
C10_StatusAsClaimed ==
    [][MonitorEvaluated =>
         mandates'[Head(monBatch).id].status =
            ClaimedStatus(Head(monBatch).row.soft_limit,
                          Head(monBatch).row.hard_limit,
                          Head(monBatch).row.current_value)]_vars

\* C10 amended: after check_mandate_breaches evaluates an active mandate its
\* status is a function of current_value and the two limits alone: BREACH if
\* the hard limit is set and non-zero and |current_value| >= |hard limit|,
\* otherwise WARNING if the soft limit is set and non-zero and
\* |current_value| >= |soft limit|, otherwise OK.
C10_StatusFromLimits ==
    [][MonitorEvaluated =>
         mandates'[Head(monBatch).id].status =
            AmendedStatus(Head(monBatch).row.soft_limit,
                          Head(monBatch).row.hard_limit,
                          Head(monBatch).row.current_value)]_vars

\* C10 witness: a mandate with only a hard limit, a negative one, was evaluated
\* and stands at BREACH, having been persisted as something else.
C10_Witness ==
    /\ streak["m1"].status = "BREACH"
    /\ streak["m1"].alerts = 1
    /\ mandates["m1"].status = "BREACH"
    /\ mandates["m1"].soft_limit = NULL
    /\ mandates["m1"].hard_limit # NULL
    /\ mandates["m1"].hard_limit[1] < 0

\* The sum of f[x] over the x in S.
RECURSIVE SumOver(_, _)
SumOver(f, S) ==
    IF S = {} THEN 0
      ELSE LET x == CHOOSE y \in S : TRUE IN f[x] + SumOver(f, S \ {x})

\* The signed sum of the fill records of the orders of one (strategy, symbol) pair.
SignedFills(strat, symbol) ==
    LET mine == {k \in 1..Len(fills) :
                    /\ orders[fills[k].order_id].strategy = strat
                    /\ orders[fills[k].order_id].symbol = symbol}
        signed == [k \in 1..Len(fills) |->
                     IF orders[fills[k].order_id].side = "BUY"
                       THEN fills[k].quantity ELSE -fills[k].quantity]
    IN SumOver(signed, mine)

\* The position quantity held for one (strategy, symbol) pair; 0 without a row.
PositionQuantity(strat, symbol) ==
    LET mine == {k \in 1..Len(positions) :
                    /\ positions[k].strategy = strat
                    /\ positions[k].symbol = symbol}
    IN SumOver([k \in 1..Len(positions) |-> positions[k].quantity], mine)

\* C12: whenever the fill simulator is not in the middle of applying a fill, the
\* position quantity of every (strategy, symbol) pair equals the signed sum of
\* the fills applied to that pair's orders.
C12_PositionEqualsFills ==
    simPc \in {"idle", "fill"} =>
        \A strat \in Strategies \cup {NoStrategy}, symbol \in KnownSymbols :
            PositionQuantity(strat, symbol) = SignedFills(strat, symbol)

\* The sum of the quantities of the fill records of order i.
FillsOf(i) ==
    SumOver([k \in 1..Len(fills) |-> fills[k].quantity],
            {k \in 1..Len(fills) : fills[k].order_id = i})

\* C13: for every order the quantities of its fill records sum to its
\* filled_quantity, also after the fill simulator has failed between the INSERT
\* of a fill and the UPDATE of the order.
C13_FillsSumToFilled ==
    simPc \in {"idle", "fill"} =>
        \A i \in OrderIds : FillsOf(i) = orders[i].filled

\* C14: cancel_order on an order that is already CANCELLED answers with the
\* AlreadyTerminal signal, not an error, and changes no order, position or
\* audit row.
C14_CancelIdempotent ==
    [][\A role \in Roles \ {"VIEWER"}, order_id \in OrderIds :
          (CancelOrderRead(role, order_id) /\ orders[order_id].status = "CANCELLED")
            => /\ cancelReq'.resp = "AlreadyTerminal"
               /\ UNCHANGED <<orders, positions, auditLog>>]_vars

\* C15: a cancel_order for an unknown id answers NotFound, one for an order in
\* FILLED or REJECTED answers InvalidState, and neither changes an order or
\* writes an audit row; a cancel_order that succeeds moves exactly the addressed
\* order to CANCELLED, its filled_quantity unchanged, and writes one audit row.
C15_CancelRejectsWithoutMutation ==
    [][/\ \A role \in Roles \ {"VIEWER"}, order_id \in 1..MaxOrders :
            CancelOrderRead(role, order_id)
              => /\ UNCHANGED <<orders, fills, positions, auditLog>>
                 /\ order_id \notin OrderIds
                      => cancelPc' = "return" /\ cancelReq'.resp = "NotFound"
                 /\ (order_id \in OrderIds /\ orders[order_id].status \in {"FILLED", "REJECTED"})
                      => cancelPc' = "return" /\ cancelReq'.resp = "InvalidState"
       /\ CancelOrderUpdate
            => /\ cancelReq'.resp = "success"
               /\ orders' = [orders EXCEPT ![cancelReq.order_id].status = "CANCELLED"]
               /\ auditLog' = [auditLog EXCEPT !["ORDER_CANCEL"] = @ + 1]]_vars

\* C15 witness: a cancel_order for a FILLED order was answered InvalidState.
C15_Witness ==
    /\ cancelPc = "return"
    /\ cancelReq.resp = "InvalidState"
    /\ Len(orders) >= 1
    /\ \A i \in OrderIds : orders[i].status = "FILLED" /\ orders[i].filled = orders[i].quantity
    /\ auditLog["ORDER_CANCEL"] = 0

\* C16: a send_order by a caller without trading capability answers Forbidden,
\* one made while the halt flag is set answers HaltActive, one for a symbol
\* without reference price answers UnknownSymbol, and none of them creates an
\* order or an audit row; a send_order that succeeds creates exactly one order,
\* PENDING with filled quantity 0, and returns its identity.
C16_SendRejectsWithoutMutation ==
    [][/\ \A role \in Roles, symbol \in AllSymbols :
            SendOrderCheck(role, symbol)
              => /\ UNCHANGED <<orders, fills, positions, auditLog>>
                 /\ role = "VIEWER"
                      => sendPc' = "return" /\ sendReq'.resp = "Forbidden"
                 /\ (role # "VIEWER" /\ haltFlag)
                      => sendPc' = "return" /\ sendReq'.resp = "HaltActive"
                 /\ (role # "VIEWER" /\ ~haltFlag /\ symbol \notin KnownSymbols)
                      => sendPc' = "return" /\ sendReq'.resp = "UnknownSymbol"
       /\ (sendPc = "insert" /\ sendPc' = "return")
            => /\ sendReq'.resp = "success"
               /\ Len(orders') = Len(orders) + 1
               /\ SubSeq(orders', 1, Len(orders)) = orders
               /\ orders'[Len(orders')].status = "PENDING"
               /\ orders'[Len(orders')].filled = 0
               /\ sendReq'.order_id = Len(orders')
               /\ auditLog' = [auditLog EXCEPT !["ORDER_SUBMIT"] = @ + 1]]_vars

\* C16 witness: a send_order was answered HaltActive after an earlier one had
\* created an order.
C16_Witness ==
    /\ sendPc = "return"
    /\ sendReq.resp = "HaltActive"
    /\ haltFlag
    /\ Len(orders) >= 1
    /\ auditLog["ORDER_SUBMIT"] = Len(orders)

\* C17: when cancel_all_orders succeeds, every order that was PENDING, OPEN or
\* PARTIAL is CANCELLED, every other order is unchanged, and the orders_cancelled
\* it reports is the number of orders its UPDATE moved to CANCELLED.
C17_CancelAllCountsWhatItCancels ==
    [][(caPc = "update" /\ caPc' = "return")
          => /\ \A i \in OrderIds :
                  orders'[i] = IF orders[i].status \in {"PENDING", "OPEN", "PARTIAL"}
                                 THEN [orders[i] EXCEPT !.status = "CANCELLED"]
                                 ELSE orders[i]
             /\ caReq'.orders_cancelled =
                  Cardinality({i \in OrderIds : orders'[i].status # orders[i].status})]_vars

\* C18: the counts execute_kill_switch returns on success are the number of
\* orders it moved to CANCELLED, of non-zero positions it zeroed and of
\* strategies it moved to HALTED.
C18_KillSwitchCountsWhatItDid ==
    [][KillSwitchSucceeds
          => /\ ksReq'.orders_cancelled = ksDone.cancelled
             /\ ksReq'.positions_closed = ksDone.zeroed
             /\ ksReq'.strategies_halted = ksDone.halted]_vars

\* The severity the claim gives an alert for a status.
SeverityFor(status) == IF status = "BREACH" THEN "CRITICAL" ELSE "WARNING"

\* C11: a pass that changes a mandate's persisted status to WARNING or BREACH
\* broadcasts and stores exactly one alert for it, of severity WARNING or
\* CRITICAL respectively; a change to OK is persisted with no alert.
C11_OneAlertPerStatusChange ==
    [][/\ \A m \in MandateIds :
            (monPc = "check" /\ mandates'[m].status # mandates[m].status)
              => IF mandates'[m].status = "OK"
                   THEN UNCHANGED <<alerts, broadcasts>>
                   ELSE /\ broadcasts' = broadcasts + 1
                        /\ \/ monPc' = "broadcasting"
                           \/ alerts' = [alerts EXCEPT
                                           ![m][SeverityFor(mandates'[m].status)] = @ + 1]
       /\ (monPc = "broadcasting" /\ monPc' # "broadcasting") => monPc' = "store"
       /\ (monPc = "store" /\ monPc' # "store")
            => alerts' = [alerts EXCEPT
                            ![Head(monBatch).id]
                             [SeverityFor(mandates[Head(monBatch).id].status)] = @ + 1]]_vars

\* The broadcast_alert call of producer c ends in this step, by returning or
\* by raising.
BroadcastEnds(c) == bcast[c] # NoReq /\ bcast'[c] = NoReq

BroadcastReturns(c) ==
    IF c = "monitor" THEN monPc' = "store" ELSE ksPc' = "publish"

\* C19: a broadcast_alert call never raises to its producer; when it ends it
\* has sent to every subscriber that stayed registered during the call, and it
\* removes from the registry exactly the subscribers its sends failed for.
C19_FailedSubscriberPruned ==
    [][\A c \in Producers :
          BroadcastEnds(c)
            => /\ BroadcastReturns(c)
               /\ (bcast[c].initial \cap connections)
                     \subseteq (bcast[c].visited \cup {bcast[c].sending})
               /\ bcast[c].disconnected \cap connections' = {}
               /\ connections' \subseteq connections
               /\ (connections \ connections')
                     \subseteq (bcast[c].disconnected \cup {bcast[c].sending})]_vars

\* C20: a producer that is inside broadcast_alert gets out of it, whatever a
\* slow subscriber does.
C20_SlowSubscriberNeverBlocks ==
    \A c \in Producers : (bcast[c] # NoReq) ~> (bcast[c] = NoReq)

\* C21: the first message a subscriber receives is its snapshot, never an alert
\* or kill-switch broadcast, also when a broadcast runs between its
\* registration and the sending of its snapshot.
C21_SnapshotFirst ==
    \A w \in Websockets : received[w] # "alert"

\* The number of rows of audit_events.
RECURSIVE AuditRows(_)
AuditRows(actions) ==
    IF actions = {} THEN 0
      ELSE LET a == CHOOSE x \in actions : TRUE
           IN auditLog[a] + AuditRows(actions \ {a})

AuditTotal == AuditRows(AuditActions)

Rejected(pc, req) == pc = "return" /\ req.resp # "success"

\* C22: every logical change writes exactly one audit record, in the step that
\* makes it: an accepted send_order, a successful cancel_order, a
\* cancel_all_orders, a fill applied to its order, a mandate status change, and
\* one for a whole kill-switch execution; a rejected operation writes none.
C22_OneAuditPerChange ==
    [][/\ Len(orders') > Len(orders) => auditLog' = Audit("ORDER_SUBMIT")
       /\ (cancelPc = "update" /\ cancelPc' = "return") => auditLog' = Audit("ORDER_CANCEL")
       /\ (caPc = "update" /\ caPc' = "return") => auditLog' = Audit("ORDERS_CANCEL_ALL")
       /\ (\E i \in OrderIds : orders'[i].filled # orders[i].filled)
             => AuditTotal' = AuditTotal + 1
       /\ (\E m \in MandateIds : mandates'[m].status # mandates[m].status)
             => AuditTotal' = AuditTotal + 1
       /\ (ksPc \in KillSwitchSteps /\ ksPc' # ksPc)
             => auditLog' = IF ksPc = "audit" /\ ksPc' = "broadcast"
                              THEN Audit("KILL_SWITCH_EXECUTE") ELSE auditLog
       /\ (sendPc = "idle" /\ Rejected(sendPc', sendReq')) => auditLog' = auditLog
       /\ (cancelPc = "idle" /\ Rejected(cancelPc', cancelReq')) => auditLog' = auditLog
       /\ (caPc = "idle" /\ Rejected(caPc', caReq')) => auditLog' = auditLog
       /\ (ksPc = "idle" /\ Rejected(ksPc', ksReq')) => auditLog' = auditLog]_vars

\* C23: the halt flag, once set, stays set in every later state, and only steps
\* of execute_kill_switch change the flag or the system status.
C23_HaltFlagOnlyByKillSwitch ==
    [][/\ haltFlag => haltFlag'
       /\ (haltFlag' # haltFlag \/ systemStatus' # systemStatus)
             => (ksPc \in {"set_flag", "set_status"} /\ ksPc' # ksPc)]_vars

\* The kill switch has completed and the fill simulator is applying a fill.
C23_Witness ==
    /\ haltFlag
    /\ systemStatus = "EMERGENCY"
    /\ ksPc = "idle"
    /\ simPc = "update_order"

FillsValue(i) ==
    SumOver([k \in 1..Len(fills) |-> fills[k].quantity * fills[k].price],
            {k \in 1..Len(fills) : fills[k].order_id = i})

\* C25: once all the fill records of an order have been applied to it, its
\* average_fill_price is the quantity-weighted average of their prices:
\* average_fill_price * filled_quantity = sum of quantity * price.
C25_AverageFillPriceWeighted ==
    \A i \in OrderIds :
        (orders[i].average_fill_price # NULL /\ FillsOf(i) = orders[i].filled)
          => orders[i].average_fill_price[1] * orders[i].filled = FillsValue(i)

PositionsOf(strat, symbol) ==
    {k \in 1..Len(positions) :
        positions[k].strategy = strat /\ positions[k].symbol = symbol}

\* C29: there is at most one position record per (strategy, symbol) pair, also
\* for orders that have no owning strategy.
C29_OnePositionPerPair ==
    \A strat \in Strategies \cup {NoStrategy}, symbol \in KnownSymbols :
        Cardinality(PositionsOf(strat, symbol)) <= 1

\* C30: a fill that adds to an existing long position leaves its
\* average_entry_price at the quantity-weighted average of the previous entry
\* price and the fill price:
\* new average * new quantity = old average * old quantity + fill_price * fill_qty.
C30_EntryPriceReaveraged ==
    [][(/\ simPc = "write_position"
        /\ positions' # positions
        /\ simCur.pos # 0
        /\ positions[simCur.pos].quantity > 0
        /\ positions'[simCur.pos].quantity > positions[simCur.pos].quantity)
          => positions'[simCur.pos].average_entry_price * positions'[simCur.pos].quantity
               = positions[simCur.pos].average_entry_price * positions[simCur.pos].quantity
                   + simCur.fill_price * simCur.fill_qty]_vars

\* C26: no step removes an alert or moves it to another mandate or severity,
\* only the monitor's INSERT adds one; only acknowledge_alert changes which
\* alerts are acknowledged, it changes nothing else, and an acknowledged alert
\* stays acknowledged.
C26_AlertsAppendOnly ==
    [][/\ \A m \in MandateIds, v \in Severities :
            /\ alerts'[m][v] >= alerts[m][v]
            /\ acknowledged'[m][v] >= acknowledged[m][v]
            /\ acknowledged'[m][v] <= alerts'[m][v]
       /\ alerts' # alerts => (monPc \in {"check", "store"} /\ acknowledged' = acknowledged)
       /\ acknowledged' # acknowledged
            => UNCHANGED <<alerts, mandates, broadcasts, monPc, monBatch>>]_vars

\* An alert has been acknowledged while another alert of the same mandate is
\* stored unacknowledged.
C26_Witness ==
    /\ acknowledged["m1"]["WARNING"] = 1
    /\ alerts["m1"]["WARNING"] = 1
    /\ alerts["m1"]["CRITICAL"] = 1
    /\ acknowledged["m1"]["CRITICAL"] = 0

\* C27: however the broadcast_alert call of a mandate alert ends, with failed
\* deliveries or not, the pass goes on: the new status stays persisted, the
\* pass is at the INSERT of the alert, and the fetched rows still to evaluate
\* are kept.
C27_BroadcastFailureDoesNotAbort ==
    [][BroadcastEnds("monitor")
          => /\ monPc' = "store"
             /\ monBatch' = monBatch
             /\ mandates' = mandates]_vars

\* The handler at pc with locals req has answered Forbidden and nothing of the
\* store or the audit log changes in this step.
Turned(pc, req) ==
    /\ pc = "return"
    /\ req.resp = "Forbidden"
    /\ UNCHANGED <<orders, fills, positions, strategies, haltFlag, systemStatus, auditLog>>

\* A handler that has answered Forbidden ends without changing anything.
EndsUnchanged(pc, req, nextPc) ==
    (pc = "return" /\ req.resp = "Forbidden" /\ nextPc # pc)
      => (nextPc = "idle" /\
          UNCHANGED <<orders, fills, positions, strategies, haltFlag, systemStatus, auditLog>>)

\* C28: send_order and cancel_order by role VIEWER, cancel_all_orders by any
\* role but ADMIN and execute_kill_switch by any role without the kill_switch
\* permission (every role but ADMIN) answer Forbidden, and no order, position,
\* strategy, flag or audit record changes in the call.
C28_ForbiddenBeforeAnyChange ==
    /\ \A role \in Roles : HasPermission(role, "kill_switch") <=> role = "ADMIN"
    /\ [][/\ \A symbol \in AllSymbols :
                SendOrderCheck("VIEWER", symbol) => Turned(sendPc', sendReq')
          /\ \A order_id \in 1..MaxOrders :
                CancelOrderRead("VIEWER", order_id) => Turned(cancelPc', cancelReq')
          /\ \A role \in Roles \ {"ADMIN"} :
                CancelAllCount(role) => Turned(caPc', caReq')
          /\ \A role \in Roles \ {"ADMIN"}, confirm \in BOOLEAN :
                KillSwitchBegin(role, confirm) => Turned(ksPc', ksReq')
          /\ EndsUnchanged(sendPc, sendReq, sendPc')
          /\ EndsUnchanged(cancelPc, cancelReq, cancelPc')
          /\ EndsUnchanged(caPc, caReq, caPc')
          /\ EndsUnchanged(ksPc, ksReq, ksPc')]_vars

\* cancel_all_orders has been turned away while an order is open, and so has
\* execute_kill_switch.
C28_Witness ==
    /\ caPc = "return"
    /\ caReq.resp = "Forbidden"
    /\ ksPc = "return"
    /\ ksReq.resp = "Forbidden"
    /\ OpenOrderIds # {}
    /\ ~haltFlag

\* What the kill switch writes before it publishes, as a reader finds it: the
\* orders that were PENDING or OPEN when it began are so no longer, the halt
\* flag is set and the system status is EMERGENCY.
KillSwitchWritten ==
    /\ \A i \in ksReq.open_at_start : orders[i].status \notin {"PENDING", "OPEN"}
    /\ haltFlag
    /\ systemStatus = "EMERGENCY"

CarriesAll(message) ==
    /\ {"orders_cancelled", "positions_closed", "strategies_halted", "reason"}
          \subseteq DOMAIN message
    /\ message.orders_cancelled = ksReq.open_orders
    /\ message.positions_closed = ksReq.positions_closed
    /\ message.strategies_halted = ksReq.active_strategies
    /\ message.reason = ksReq.reason
    /\ \E field \in DOMAIN message \cap {"message", "executed_by"} :
          message[field] = ksReq.username

\* C32: an execute_kill_switch that succeeds hands exactly one alert to
\* broadcast_alert, of severity CRITICAL, and publishes exactly one event on
\* system_alerts; both carry the counts of cancelled orders, closed positions
\* and halted strategies, the invoking identity and the reason.
C32_OneAlertOneEventWithCounts ==
    [][/\ (ksPc = "broadcast" /\ ksPc' = "publish")
            => /\ broadcasts' = broadcasts + 1
               /\ KillSwitchAlert.severity = "CRITICAL"
               /\ CarriesAll(KillSwitchAlert)
       /\ KillSwitchSucceeds
            => /\ published' = published + 1
               /\ UNCHANGED broadcasts
               /\ CarriesAll(SystemAlert)
       /\ (ksPc # "idle" /\ ksPc \notin {"broadcast", "publish"})
            => UNCHANGED <<broadcasts, published>>]_vars

\* C33: once an execute_kill_switch has returned success, the fill simulator
\* inserts no fill, no order's filled_quantity or status changes, and no
\* position's quantity becomes non-zero.
C33_NoTradingAfterKillSwitch ==
    [][(published > 0 /\ ksPc = "idle")
          => /\ fills' = fills
             /\ \A i \in OrderIds :
                   /\ orders'[i].filled = orders[i].filled
                   /\ orders'[i].status = orders[i].status
             /\ \A k \in 1..Len(positions') :
                   positions'[k].quantity # 0
                     => (k <= Len(positions) /\ positions[k].quantity # 0)]_vars

\* C34: in every reachable state the halt flag is set if and only if the system
\* status is EMERGENCY.
C34_FlagAgreesWithStatus ==
    haltFlag <=> (systemStatus = "EMERGENCY")

\* C35: while the halt flag is set no strategy is ACTIVE, and no step taken
\* while it is set moves a strategy to ACTIVE.
C35_NoActivationWhileHalted ==
    /\ haltFlag => \A x \in Strategies : strategies[x] # "ACTIVE"
    /\ [][haltFlag =>
            \A x \in Strategies :
                strategies'[x] = "ACTIVE" => strategies[x] = "ACTIVE"]_vars

\* C36: once an execute_kill_switch has succeeded and nothing else runs, a
\* further run changes no order, position or strategy, nor the halt flag or
\* the system status, and it reports zero orders cancelled and zero positions
\* closed.
C36_KillSwitchIdempotent ==
    [][/\ published > 0
            => UNCHANGED <<orders, positions, strategies, haltFlag, systemStatus>>
       /\ (published > 0 /\ KillSwitchSucceeds)
            => /\ ksReq'.orders_cancelled = 0
               /\ ksReq'.positions_closed = 0]_vars

\* The second run has succeeded on a store that holds a partially filled order
\* and a position.
C36_Witness ==
    /\ published = 2
    /\ ksPc = "return"
    /\ ksReq.resp = "success"
    /\ \E i \in OrderIds : orders[i].status = "PARTIAL"
    /\ positions # << >>

\* C37: the mandate monitor touches only active mandates: no step of a pass
\* changes the status or the current value of an inactive mandate, evaluates
\* it, or emits or stores an alert for it.
C37_InactiveMandateUntouched ==
    /\ \A m \in MandateIds :
          ~mandates[m].is_active =>
              /\ streak[m] = NoStreak
              /\ \A v \in Severities : alerts[m][v] = 0
    /\ [][\A m \in MandateIds :
              ~mandates[m].is_active =>
                  /\ mandates'[m] = mandates[m]
                  /\ alerts'[m] = alerts[m]
                  /\ streak'[m] = streak[m]]_vars

\* Two passes have evaluated the active mandate while the inactive one sits at
\* its soft limit with status OK.
C37_Witness ==
    /\ monPc = "idle"
    /\ mandates["m1"].is_active
    /\ streak["m1"].passes = MaxPasses
    /\ ~mandates["m2"].is_active
    /\ ComputeStatus(mandates["m2"]) # mandates["m2"].status

\* C38: when a pass moves a mandate's persisted status from BREACH to WARNING,
\* that step broadcasts one alert and stores one alert of severity WARNING for
\* the mandate, and the alert names the soft limit; a change to OK broadcasts
\* and stores nothing.
C38_DeescalationAlerts ==
    [][\A m \in MandateIds :
          /\ (monPc = "check" /\ mandates[m].status = "BREACH"
                /\ mandates'[m].status = "WARNING")
               => /\ broadcasts' = broadcasts + 1
                  /\ AlertLimit(Head(monBatch).row) = mandates[m].soft_limit
                  /\ alerts' = [alerts EXCEPT ![m]["WARNING"] = @ + 1]
          /\ (monPc = "check" /\ mandates[m].status # "OK"
                /\ mandates'[m].status = "OK")
               => UNCHANGED <<alerts, broadcasts>>]_vars

\* The persisted status of an active mandate is not the one its row computes.
StatusStale(m) ==
    /\ mandates[m].is_active
    /\ ComputeStatus(mandates[m]) # mandates[m].status

\* C39: the monitor keeps running passes: whenever an active mandate's computed
\* status differs from its persisted status, a pass eventually persists the
\* computed status (as long as the monitor has alerts left to send within the
\* bound MaxAlerts).
C39_StaleStatusEventuallyPersisted ==
    \A m \in MandateIds :
        (StatusStale(m) /\ broadcasts < MaxAlerts)
            ~> (~StatusStale(m) \/ broadcasts >= MaxAlerts)
====
